---- MODULE Spec2Model ----
(***************************************************************************)
(* Model of code/make_transaction.py: the TransactionCreator object, its   *)
(* attributes, and run() executed statement group by statement group with  *)
(* the wall clock advancing in between.                                    *)
(*                                                                         *)
(* Representation                                                          *)
(*   - a Python str is the sequence of its code points, a bytes object the *)
(*     sequence of its bytes (0..255);                                     *)
(*   - a Python int that may exceed the range of TLC's integers is        *)
(*     the little-endian sequence of its base-256 digits (no high zeros);  *)
(*   - a Python float is a binary fixed-point number with FracBits         *)
(*     fractional bits, held as its bits, least significant first; every   *)
(*     float operation is the exact operation followed by rounding to 53   *)
(*     significant bits, ties to even (IEEE-754 double).                   *)
(*                                                                         *)
(* Inputs: amounts are whole, non-negative and below 2^31; public keys are *)
(* 64 hexadecimal characters; addresses are 40 ASCII characters.           *)
(***************************************************************************)
EXTENDS Integers, Naturals, Sequences, FiniteSets, TLC

VARIABLES public_key, amount, address, message, message_type,
          transaction_type, network_type, common_data, transfer_data,
          message_field, payload, payload_length,
          pc, clock, log

vars == <<public_key, amount, address, message, message_type,
          transaction_type, network_type, common_data, transfer_data,
          message_field, payload, payload_length, pc, clock, log>>

request == <<public_key, amount, address, message, transaction_type,
             network_type>>

\* Number of run() invocations on one object.
MaxCalls == 2
\* Number of seconds the wall clock advances during a behaviour.
MaxTicks == 2

(***************************************************************************)
(* Sequences                                                               *)
(***************************************************************************)
Rep(x, n) == [i \in 1..n |-> x]

RECURSIVE Flatten(_)
Flatten(ss) ==
    IF ss = <<>> THEN <<>>
    ELSE IF Len(ss) = 1 THEN ss[1]
    ELSE LET h == Len(ss) \div 2
         IN  Flatten(SubSeq(ss, 1, h)) \o Flatten(SubSeq(ss, h + 1, Len(ss)))

(***************************************************************************)
(* Python int <-> base-256 digits, int.to_bytes                            *)
(***************************************************************************)
RECURSIVE Digits(_)
Digits(n) == IF n = 0 THEN <<>> ELSE <<n % 256>> \o Digits(n \div 256)

RECURSIVE StripZeros(_)
StripZeros(d) ==
    IF d = <<>> THEN <<>>
    ELSE IF d[Len(d)] = 0 THEN StripZeros(SubSeq(d, 1, Len(d) - 1))
    ELSE d

\* d * c + carry
RECURSIVE MulDigits(_, _, _)
MulDigits(d, c, carry) ==
    IF d = <<>> THEN Digits(carry)
    ELSE LET t == Head(d) * c + carry
         IN  <<t % 256>> \o MulDigits(Tail(d), c, t \div 256)

\* d + carry
RECURSIVE AddDigits(_, _)
AddDigits(d, carry) ==
    IF carry = 0 THEN d
    ELSE IF d = <<>> THEN Digits(carry)
    ELSE LET t == Head(d) + carry
         IN  <<t % 256>> \o AddDigits(Tail(d), t \div 256)

\* d << 24
ShiftLeft24(d) == IF d = <<>> THEN <<>> ELSE <<0, 0, 0>> \o d

\* value.to_bytes(byte_num, 'little'); every value of the model fits.
convert_number_to_byte(value, byte_num) ==
    value \o Rep(0, byte_num - Len(value))

(***************************************************************************)
(* str.encode('utf-8'), bytes.hex(), int(s, 16)                            *)
(***************************************************************************)
Utf8Char(cp) ==
    IF cp < 128 THEN <<cp>>
    ELSE IF cp < 2048 THEN <<192 + (cp \div 64), 128 + (cp % 64)>>
    ELSE IF cp < 65536
         THEN <<224 + (cp \div 4096), 128 + ((cp \div 64) % 64), 128 + (cp % 64)>>
    ELSE <<240 + (cp \div 262144), 128 + ((cp \div 4096) % 64),
           128 + ((cp \div 64) % 64), 128 + (cp % 64)>>

Utf8Encode(s) == Flatten([i \in 1..Len(s) |-> Utf8Char(s[i])])

HexChar(d) == IF d < 10 THEN 48 + d ELSE 87 + d

\* bytes.hex(): a str of two lower-case hexadecimal characters per byte
Hex(b) ==
    [i \in 1..(2 * Len(b)) |->
        IF i % 2 = 1 THEN HexChar(b[(i + 1) \div 2] \div 16)
        ELSE HexChar(b[i \div 2] % 16)]

HexVal(c) ==
    IF c >= 48 /\ c <= 57 THEN c - 48
    ELSE IF c >= 97 /\ c <= 102 THEN c - 87
    ELSE c - 55

\* int(s, 16) for a string of an even number of hexadecimal characters
ParseHex(s) ==
    LET n == Len(s) \div 2
    IN  StripZeros([j \in 1..n |->
            16 * HexVal(s[Len(s) - 2 * j + 1]) + HexVal(s[Len(s) - 2 * j + 2])])

(***************************************************************************)
(* Python float                                                            *)
(***************************************************************************)
FracBits == 57

RECURSIVE NatToBits(_)
NatToBits(n) == IF n = 0 THEN <<>> ELSE <<n % 2>> \o NatToBits(n \div 2)

RECURSIVE BitsToNat(_)
BitsToNat(b) == IF b = <<>> THEN 0 ELSE Head(b) + 2 * BitsToNat(Tail(b))

RECURSIVE TrimBits(_)
TrimBits(b) ==
    IF b = <<>> THEN <<>>
    ELSE IF b[Len(b)] = 0 THEN TrimBits(SubSeq(b, 1, Len(b) - 1))
    ELSE b

RECURSIVE MulBits(_, _, _)
MulBits(b, c, carry) ==
    IF b = <<>> THEN NatToBits(carry)
    ELSE LET t == Head(b) * c + carry
         IN  <<t % 2>> \o MulBits(Tail(b), c, t \div 2)

RECURSIVE AddBits(_, _, _)
AddBits(a, b, carry) ==
    IF a = <<>> /\ b = <<>> THEN NatToBits(carry)
    ELSE LET x == IF a = <<>> THEN 0 ELSE Head(a)
             y == IF b = <<>> THEN 0 ELSE Head(b)
             t == x + y + carry
         IN  <<t % 2>> \o AddBits(IF a = <<>> THEN <<>> ELSE Tail(a),
                                  IF b = <<>> THEN <<>> ELSE Tail(b),
                                  t \div 2)

\* round to nearest double, ties to even
Round53(b0) ==
    LET b == TrimBits(b0)
        d == Len(b) - 53
    IN  IF d <= 0 THEN b
        ELSE LET kept   == SubSeq(b, d + 1, Len(b))
                 sticky == \E i \in 1..(d - 1) : b[i] = 1
                 up     == b[d] = 1 /\ (sticky \/ kept[1] = 1)
                 m      == IF up THEN AddBits(kept, <<1>>, 0) ELSE kept
             IN  TrimBits(Rep(0, d) \o m)

BitAt(b, i) == IF i <= Len(b) THEN b[i] ELSE 0

fl_less(a, b) ==
    LET n == IF Len(a) > Len(b) THEN Len(a) ELSE Len(b)
    IN  \E i \in 1..n : /\ BitAt(a, i) < BitAt(b, i)
                        /\ \A j \in (i + 1)..n : BitAt(a, j) = BitAt(b, j)

\* float * (integer-valued float c)
fl_mul(a, c) == Round53(MulBits(a, c, 0))
fl_add(a, b) == Round53(AddBits(a, b, 0))
fl_min(a, b) == IF fl_less(b, a) THEN b ELSE a
fl_max(a, b) == IF fl_less(a, b) THEN b ELSE a
\* int(float): truncation
fl_int(a) == BitsToNat(SubSeq(a, FracBits + 1, Len(a)))

NibbleBits(h) == <<h % 2, (h \div 2) % 2, (h \div 4) % 2, (h \div 8) % 2>>

\* the double nearest 0.05: 0x1999999999999A * 2^-57
Double_0_05 ==
    TrimBits(Flatten([i \in 1..14 |->
        NibbleBits(IF i = 1 THEN 10 ELSE IF i = 14 THEN 1 ELSE 9)]))
\* 1.25 = 5 * 2^-2
Double_1_25 == Rep(0, FracBits - 2) \o <<1, 0, 1>>

(***************************************************************************)
(* Program constants                                                       *)
(***************************************************************************)
TRANSACTION_TYPE ==
    [transfer |-> 257, importance_transfer |-> 2049,
     multisig_aggregate_modification |-> 4097, multisig_signature |-> 4098,
     multisig |-> 4100, provision_namespace |-> 8193,
     mosaic_definition_creation |-> 16385, mosaic_supply_change |-> 16386]

nem_to_micronem == 1000000
deadline_span == 3600
base_amount == 10000
base_message_size == 32
minimum_fee == Double_0_05
maximum_fee == Double_1_25
fee_per_base_amount == Double_0_05
fee_per_base_message == Double_0_05

\* 'plane', 'encryption'
plane == <<112, 108, 97, 110, 101>>
encryption == <<101, 110, 99, 114, 121, 112, 116, 105, 111, 110>>

\* what a function call produces: a value, or an exception
Return(v) == [raised |-> "", value |-> v]
Raise(e) == [raised |-> e, value |-> <<>>]

(***************************************************************************)
(* Methods of TransactionCreator                                           *)
(***************************************************************************)
\* C3 mutant: the payload length counts hexadecimal characters
set_message_info_chars(msg, mtype) ==
    IF mtype # plane /\ mtype # encryption
    THEN Raise("Exception")
    ELSE LET pl == Utf8Encode(Hex(Utf8Encode(msg)))
             n  == Len(pl)
         IN  Return([message_type |->
                         convert_number_to_byte(
                             Digits(IF mtype = plane THEN 1 ELSE 2), 4),
                     payload |-> pl,
                     message_field |-> convert_number_to_byte(Digits(4 + 4 + n), 4),
                     payload_length |-> convert_number_to_byte(Digits(n), 4)])

\* C5 mutant: a message type that is not 'plane' is taken as 'encryption'
set_message_info_else(msg, mtype) ==
    LET pl == Utf8Encode(Hex(Utf8Encode(msg)))
        n  == Len(pl) \div 2
    IN  Return([message_type |->
                    convert_number_to_byte(
                        Digits(IF mtype = plane THEN 1 ELSE 2), 4),
                payload |-> pl,
                message_field |-> convert_number_to_byte(Digits(4 + 4 + n), 4),
                payload_length |-> convert_number_to_byte(Digits(n), 4)])

set_message_info(msg, mtype) ==
    IF mtype # plane /\ mtype # encryption
    THEN Raise("Exception")
    ELSE LET pl == Utf8Encode(Hex(Utf8Encode(msg)))
             n  == Len(pl) \div 2
         IN  Return([message_type |->
                         convert_number_to_byte(
                             Digits(IF mtype = plane THEN 1 ELSE 2), 4),
                     payload |-> pl,
                     message_field |-> convert_number_to_byte(Digits(4 + 4 + n), 4),
                     payload_length |-> convert_number_to_byte(Digits(n), 4)])

\* C6 mutant: a kind that is not in the table gets the code 0
get_transaction_type_default(kind) ==
    IF kind \in DOMAIN TRANSACTION_TYPE
    THEN Return(convert_number_to_byte(Digits(TRANSACTION_TYPE[kind]), 4))
    ELSE Return(convert_number_to_byte(Digits(0), 4))

get_transaction_type(kind) ==
    IF kind \in DOMAIN TRANSACTION_TYPE
    THEN Return(convert_number_to_byte(Digits(TRANSACTION_TYPE[kind]), 4))
    ELSE Raise("KeyError")

\* C9 mutant: only 'transfer' has structure version 2
get_version_transfer_only(kind, net) ==
    LET network == ShiftLeft24(Digits(IF net = "main" THEN 104 ELSE 152))
        version == AddDigits(network, IF kind = "transfer" THEN 2 ELSE 1)
    IN  convert_number_to_byte(version, 4)

get_version(kind, net) ==
    LET network == ShiftLeft24(Digits(IF net = "main" THEN 104 ELSE 152))
        version == AddDigits(network,
                       IF kind \in {"transfer", "multisig_aggregate_modification"}
                       THEN 2 ELSE 1)
    IN  convert_number_to_byte(version, 4)

get_publickey_length == convert_number_to_byte(Digits(32), 4)

get_timestamp(now) == convert_number_to_byte(Digits(now), 4)

get_publickey(key) == convert_number_to_byte(ParseHex(key), 32)

\* C7 mutant: the minimum fee is not applied
transfer_fee_no_minimum(amt) ==
    fl_min(fl_mul(fee_per_base_amount, amt \div base_amount), maximum_fee)

\* lines 156-158 of calc_fee
transfer_fee(amt) ==
    fl_max(fl_min(fl_mul(fee_per_base_amount, amt \div base_amount),
                  maximum_fee),
           minimum_fee)

calc_fee(amt, msg, pl) ==
    LET message_fee ==
            IF msg = <<>> THEN <<>>
            ELSE fl_mul(fee_per_base_message,
                        1 + ((Len(pl) \div 2) \div base_message_size))
        fee == fl_mul(fl_add(transfer_fee(amt), message_fee), nem_to_micronem)
    IN  convert_number_to_byte(Digits(fl_int(fee)), 8)

get_deadline(now) == convert_number_to_byte(Digits(now + deadline_span), 4)

get_address_length == convert_number_to_byte(Digits(40), 4)

get_address(addr) == Utf8Encode(Hex(Utf8Encode(addr)))

get_amount(amt) ==
    convert_number_to_byte(MulDigits(Digits(amt), nem_to_micronem, 0), 8)

(***************************************************************************)
(* Inputs of the constructor                                               *)
(***************************************************************************)
Amounts == {0, 12, 9999, 10000, 30000, 250000, 260000}

\* None, 'NEM', a string of 2-, 3- and 4-byte characters, long strings
Messages == {<<>>, <<78, 69, 77>>, <<233, 12354, 128512>>,
             Rep(97, 32), Rep(97, 480)}

\* 'plane', 'encryption', 'hex'
MessageTypes == {plane, encryption, <<104, 101, 120>>}

TransactionKinds == (DOMAIN TRANSACTION_TYPE) \cup {"transfr"}

Networks == {"main", "test"}

PublicKeys == {[i \in 1..64 |-> HexChar((7 * i + 3) % 16)]}

Addresses == {<<84>> \o [i \in 1..39 |-> 65 + (i % 26)]}

\* seconds since the origin time at the start of a behaviour
Clocks == {100000255}

\* <<amount, message, message_type, transaction_type, network_type>>:
\* every kind and network with a short message or none, and every amount and
\* message for a transfer on the test network
Requests ==
    ({12, 250000} \X {<<>>, <<78, 69, 77>>} \X MessageTypes
        \X TransactionKinds \X Networks)
    \cup (Amounts \X Messages \X MessageTypes \X {"transfer"} \X {"test"})

NoResult == <<>>

(***************************************************************************)
(* State machine                                                           *)
(***************************************************************************)
\* __init__
Init ==
    /\ public_key \in PublicKeys
    /\ address \in Addresses
    /\ \E r \in Requests :
          /\ amount = r[1]
          /\ message = r[2]
          /\ message_type = r[3]
          /\ transaction_type = r[4]
          /\ network_type = r[5]
    /\ common_data = <<>>
    /\ transfer_data = <<>>
    /\ message_field = <<>>
    /\ payload = <<>>
    /\ payload_length = <<>>
    /\ pc = "ready"
    /\ clock \in Clocks
    /\ log = <<>>

\* the call in progress, or the last one finished
Last == log[Len(log)]

Finish(status, result) ==
    /\ pc' = "ready"
    /\ log' = [log EXCEPT ![Len(log)].status = status,
                          ![Len(log)].result = result]

\* datetime.now(): the wall clock advances by a second
Tick ==
    /\ \E c \in Clocks : clock < c + MaxTicks
    /\ clock' = clock + 1
    /\ UNCHANGED <<request, message_type, common_data, transfer_data,
                   message_field, payload, payload_length, pc, log>>

\* a caller invokes run()
Call ==
    /\ pc = "ready"
    /\ Len(log) < MaxCalls
    /\ pc' = "step1"
    /\ log' = Append(log, [status |-> "running", result |-> NoResult,
                           message_type |-> message_type, clock |-> clock])
    /\ UNCHANGED <<request, message_type, common_data, transfer_data,
                   message_field, payload, payload_length, clock>>

\* Step.1, with a message
Step1Message ==
    /\ pc = "step1"
    /\ message # <<>>
    /\ LET r == set_message_info(message, message_type)
       IN  /\ r.raised = ""
           /\ message_type' = r.value.message_type
           /\ payload' = r.value.payload
           /\ message_field' = r.value.message_field
           /\ payload_length' = r.value.payload_length
    /\ pc' = "get_transaction_type"
    /\ UNCHANGED <<request, common_data, transfer_data, clock, log>>

\* Step.1, set_message_info raises
Step1Raise ==
    /\ pc = "step1"
    /\ message # <<>>
    /\ LET r == set_message_info(message, message_type)
       IN  /\ r.raised # ""
           /\ Finish(r.raised, NoResult)
    /\ UNCHANGED <<request, message_type, common_data, transfer_data,
                   message_field, payload, payload_length, clock>>

\* Step.1, without a message
Step1NoMessage ==
    /\ pc = "step1"
    /\ message = <<>>
    /\ message_field' = convert_number_to_byte(Digits(0), 4)
    /\ pc' = "get_transaction_type"
    /\ UNCHANGED <<request, message_type, common_data, transfer_data,
                   payload, payload_length, clock, log>>

\* Step.2, line 221
AppendTransactionType ==
    /\ pc = "get_transaction_type"
    /\ LET r == get_transaction_type(transaction_type)
       IN  /\ r.raised = ""
           /\ common_data' = common_data \o r.value
    /\ pc' = "get_version"
    /\ UNCHANGED <<request, message_type, transfer_data, message_field,
                   payload, payload_length, clock, log>>

\* Step.2, line 221: the lookup raises
TransactionTypeRaise ==
    /\ pc = "get_transaction_type"
    /\ LET r == get_transaction_type(transaction_type)
       IN  /\ r.raised # ""
           /\ Finish(r.raised, NoResult)
    /\ UNCHANGED <<request, message_type, common_data, transfer_data,
                   message_field, payload, payload_length, clock>>

\* Step.2, line 222
AppendVersion ==
    /\ pc = "get_version"
    /\ common_data' = common_data \o get_version(transaction_type, network_type)
    /\ pc' = "get_timestamp"
    /\ UNCHANGED <<request, message_type, transfer_data, message_field,
                   payload, payload_length, clock, log>>

\* Step.2, line 223: reads the clock
AppendTimestamp ==
    /\ pc = "get_timestamp"
    /\ common_data' = common_data \o get_timestamp(clock)
    /\ pc' = "get_publickey"
    /\ UNCHANGED <<request, message_type, transfer_data, message_field,
                   payload, payload_length, clock, log>>

\* Step.2, lines 224-226
AppendKeyAndFee ==
    /\ pc = "get_publickey"
    /\ common_data' = common_data \o get_publickey_length
                        \o get_publickey(public_key)
                        \o calc_fee(amount, message, payload)
    /\ pc' = "get_deadline"
    /\ UNCHANGED <<request, message_type, transfer_data, message_field,
                   payload, payload_length, clock, log>>

\* Step.2, line 227: reads the clock again
AppendDeadline ==
    /\ pc = "get_deadline"
    /\ common_data' = common_data \o get_deadline(clock)
    /\ pc' = "step3"
    /\ UNCHANGED <<request, message_type, transfer_data, message_field,
                   payload, payload_length, clock, log>>

\* Step.3
Step3 ==
    /\ pc = "step3"
    /\ transfer_data' = transfer_data \o get_address_length
                          \o get_address(address) \o get_amount(amount)
                          \o message_field
                          \o (IF message # <<>>
                              THEN message_type \o payload_length \o payload
                              ELSE <<>>)
    /\ pc' = "step4"
    /\ UNCHANGED <<request, message_type, common_data, message_field,
                   payload, payload_length, clock, log>>

\* Step.4
Step4 ==
    /\ pc = "step4"
    /\ Finish("ok", common_data \o transfer_data)
    /\ UNCHANGED <<request, message_type, common_data, transfer_data,
                   message_field, payload, payload_length, clock>>

Next ==
    \/ Tick
    \/ Call
    \/ Step1Message
    \/ Step1Raise
    \/ Step1NoMessage
    \/ AppendTransactionType
    \/ TransactionTypeRaise
    \/ AppendVersion
    \/ AppendTimestamp
    \/ AppendKeyAndFee
    \/ AppendDeadline
    \/ Step3
    \/ Step4

Spec == Init /\ [][Next]_vars

(***************************************************************************)
(* Reading an output                                                       *)
(***************************************************************************)
\* little-endian value of a field whose value is below 2^31
RECURSIVE LEValue(_)
LEValue(b) == IF b = <<>> THEN 0 ELSE Head(b) + 256 * LEValue(Tail(b))

\* the n bytes that follow the first off bytes
Field(out, off, n) == SubSeq(out, off + 1, off + n)

\* the last n bytes but k: the n bytes that end k bytes before the end
Tail_(out, k, n) == SubSeq(out, Len(out) - k - n + 1, Len(out) - k)

Returned == pc = "ready" /\ log # <<>> /\ Last.status = "ok"
Failed == pc = "ready" /\ log # <<>> /\ Last.status # "ok"
Known == transaction_type \in DOMAIN TRANSACTION_TYPE

Clamp(x, lo, hi) == IF x < lo THEN lo ELSE IF x > hi THEN hi ELSE x

\* the transfer fee of section 4.4 of the specification, in micro-units
SpecTransferFee == Clamp((amount \div 10000) * 50000, 50000, 1250000)

\* raw UTF-8 length of the message
RawLength == Len(Utf8Encode(message))

(***************************************************************************)
(* Claims                                                                  *)
(***************************************************************************)

\* C1: a transfer without a message returns exactly 112 bytes, laid out as
\* type(4) version(4) timestamp(4) pk_len(4) pubkey(32) fee(8) deadline(4)
\* addr_len(4) address(40) amount(8) msg_field_len(4), and the last 4-byte
\* field decodes to 0.
C1_NoMessageIs112Bytes ==
    (Returned /\ transaction_type = "transfer" /\ message = <<>>) =>
        LET out == Last.result
        IN  /\ Len(out) = 112
            /\ LEValue(Field(out, 12, 4)) = 32
            /\ LEValue(Field(out, 60, 4)) = 40
            /\ Field(out, 64, 40) = Utf8Encode(address)
            /\ LEValue(Tail_(out, 0, 4)) = 0

\* C2: encoding is stateless: when the first run() on an object returned, a
\* later run() on the same object, with the same inputs and the clock where
\* it was at the first invocation, returns too, and returns the same bytes.
C2_RepeatedRunSameOutput ==
    (pc = "ready" /\ Len(log) >= 2 /\ clock = log[1].clock
        /\ log[1].status = "ok") =>
            /\ Last.status = "ok"
            /\ Last.result = log[1].result

\* C3: a transfer with a message of L raw UTF-8 bytes returns an output that
\* ends with msg_field_len(4) msg_type(4) payload_len(4) payload, where
\* msg_field_len is 8 + L, payload_len is L, and the payload is the 2L ASCII
\* hexadecimal digits of the UTF-8 message.
C3_MessageBlock ==
    (Returned /\ transaction_type = "transfer" /\ message # <<>>) =>
        LET out == Last.result
            utf == Utf8Encode(message)
            L   == Len(utf)
            pay == Tail_(out, 0, 2 * L)
        IN  /\ Len(out) >= 12 + 2 * L
            /\ LEValue(Tail_(out, 2 * L + 8, 4)) = 8 + L
            /\ LEValue(Tail_(out, 2 * L, 4)) = L
            /\ Len(pay) = 2 * L
            /\ \A i \in 1..L :
                  /\ pay[2 * i - 1] \in (48..57) \cup (97..102)
                  /\ pay[2 * i] \in (48..57) \cup (97..102)
                  /\ 16 * HexVal(pay[2 * i - 1]) + HexVal(pay[2 * i])
                        = utf[i]
            /\ (message = <<78, 69, 77>> =>
                  /\ LEValue(Tail_(out, 14, 4)) = 11
                  /\ LEValue(Tail_(out, 6, 4)) = 3
                  /\ pay = <<52, 101, 52, 53, 52, 100>>)

C3_Witness ==
    /\ Returned /\ transaction_type = "transfer"
    /\ message = <<78, 69, 77>>
    /\ LEValue(Tail_(Last.result, 14, 4)) = 11

\* C4: run() with a kind that is in the type-code table but is not transfer
\* fails (with the unsupported-kind error; any error is accepted here) and
\* returns no byte sequence.
C4_NonTransferFails ==
    (pc = "ready" /\ log # <<>> /\ Known /\ transaction_type # "transfer") =>
        /\ Last.status # "ok"
        /\ Last.result = NoResult

\* C5: with a message, message type plain ('plane') is encoded as the 4-byte
\* tag 1 and encrypted ('encryption') as the tag 2, and with any other
\* message type the call fails with the invalid-message-type error and
\* returns nothing.  The message type is the value of the attribute when
\* run() is entered.
C5_MessageTypeTag ==
    (pc = "ready" /\ log # <<>> /\ message # <<>>) =>
        LET t   == Last.message_type
            tag == LEValue(Tail_(Last.result, 2 * RawLength + 4, 4))
        IN  /\ (t = plane /\ Known) => (Last.status = "ok" /\ tag = 1)
            /\ (t = encryption /\ Known) => (Last.status = "ok" /\ tag = 2)
            /\ (t # plane /\ t # encryption) =>
                  (Last.status = "Exception" /\ Last.result = NoResult)
            /\ Last.status = "ok" => t \in {plane, encryption}

C5_Witness ==
    /\ Returned /\ message # <<>> /\ Last.message_type = encryption
    /\ LEValue(Tail_(Last.result, 2 * RawLength + 4, 4)) = 2

\* C6 (as stated): a call whose kind is absent from the type-code table fails
\* with the unknown-kind error (KeyError), with both buffers still empty and
\* nothing returned.
C6_UnknownKindKeyError ==
    (pc = "ready" /\ log # <<>> /\ ~Known) =>
        /\ Last.status = "KeyError"
        /\ common_data = <<>>
        /\ transfer_data = <<>>
        /\ Last.result = NoResult

\* C6 (amended): a call whose kind is absent from the type-code table fails
\* before any byte is emitted: both buffers are empty and nothing is returned.
\* The error is the unknown-kind error (KeyError), unless a message is present
\* and the message type the call finds is neither plain nor encrypted: the
\* message step runs first and the error is then the invalid-message-type one.
C6_UnknownKindFailsEmpty ==
    ~Known =>
        /\ common_data = <<>>
        /\ transfer_data = <<>>
        /\ (pc = "ready" /\ log # <<>>) =>
              /\ Last.result = NoResult
              /\ Last.status =
                    (IF message # <<>> /\ Last.message_type \notin {plane, encryption}
                     THEN "Exception" ELSE "KeyError")

C6_Witness ==
    /\ Failed /\ ~Known /\ Last.status = "KeyError"
    /\ common_data = <<>> /\ transfer_data = <<>>

\* C7: without a message the 8-byte fee decodes to
\* clamp(floor(amount / 10000) * 0.05, 0.05, 1.25) in micro-units, which is
\* between 50000 and 1250000: 50000 for 0, 12, 9999 and 10000, and 1250000
\* from 250000 on.
C7_FeeClamped ==
    (Returned /\ message = <<>>) =>
        LET fee == LEValue(Field(Last.result, 48, 8))
        IN  /\ fee = SpecTransferFee
            /\ fee >= 50000 /\ fee <= 1250000
            /\ amount \in {0, 12, 9999, 10000} => fee = 50000
            /\ amount >= 250000 => fee = 1250000

C7_Witness ==
    /\ Returned /\ message = <<>> /\ amount = 0
    /\ LEValue(Field(Last.result, 48, 8)) = 50000

\* C8: with a message of L raw bytes the encoded fee is the fee without a
\* message plus 50000 * (1 + floor(L / 32)) micro-units.
C8_MessageFee ==
    (Returned /\ message # <<>>) =>
        LEValue(Field(Last.result, 48, 8))
            = SpecTransferFee + 50000 * (1 + (RawLength \div 32))

\* C9: for a known kind and a network in {main, test} the version word is
\* (0x68 for main, 0x98 for test) * 2^24 + (2 for transfer and
\* multisig_aggregate_modification, 1 otherwise), little-endian: the top byte
\* is the network byte and the low three bytes hold the structure version.
C9_VersionWord ==
    (Returned /\ network_type \in {"main", "test"}) =>
        LET v == Field(Last.result, 4, 4)
        IN  /\ v[4] = (IF network_type = "main" THEN 104 ELSE 152)
            /\ LEValue(SubSeq(v, 1, 3)) =
                  (IF transaction_type \in {"transfer", "multisig_aggregate_modification"}
                   THEN 2 ELSE 1)
            /\ (transaction_type = "transfer" /\ network_type = "test")
                  => v = <<2, 0, 0, 152>>
            /\ (transaction_type = "importance_transfer" /\ network_type = "main")
                  => v = <<1, 0, 0, 104>>

C9_Witness ==
    /\ Returned
    /\ transaction_type = "multisig_aggregate_modification"
    /\ network_type = "main"
    /\ Field(Last.result, 4, 4) = <<2, 0, 0, 104>>

\* C10: in every interleaving of clock ticks with the steps of run(), the
\* deadline field of the output is the timestamp field plus 3600.
C10_DeadlineIsTimestampPlusSpan ==
    Returned =>
        LEValue(Field(Last.result, 56, 4))
            = LEValue(Field(Last.result, 8, 4)) + 3600

====
